---- MODULE Spec2Model ----
\* A model of rusync: the group store (src/src/sync.rs save_all, load_all,
\* add_files, remove_files), the command layer (src/src/main.rs) and the
\* synchronization engine (Sync::sync).  Strings are sequences of
\* one-character strings, so that splitting, joining and prefix tests are
\* computed as the code computes them.
EXTENDS Integers, Sequences, FiniteSets, TLC

VARIABLES
    pc,          \* position of the running process
    group,       \* sync: the Sync value `self`
    fs,          \* sync: modification time of every member file, by location
    dstMtime,    \* sync: modification time of the scratch file, NoFile if absent
    idx,         \* sync: index of the loop iteration to run next
    latest,      \* sync: `latest`
    targets,     \* sync: `targets`, as candidate indices
    others,      \* sync: `others`, as candidate indices
    reads,       \* sync: history of <<candidate index, mtime read>>
    staged,      \* sync: history of the staging transfers' outcomes
    transfers,   \* sync: history of the propagation transfers <<src, dst>>
    updated,     \* sync: history, the number of targets a transfer has written
    printed,     \* sync: the count reported, NoReport if nothing was printed
    start,       \* sync: history, fs and dstMtime as the running sync found them
    panic,       \* the panic message of the process, NoPanic if it did not panic
    store,       \* the persisted store file: NoFile, or Some(its contents)
    home,        \* whether home_dir() resolves in the running process
    syncs,       \* main: the collection `syncs` in memory
    load,        \* history: what load_all met and did in the running process
    cmd,         \* history: the command run, its name lookup, its result and
                 \* the collection as the command found it
    prev         \* history: the store file as the running save_all found it

syncVars == <<group, fs, dstMtime, idx, latest, targets, others, reads,
              staged, transfers, updated, printed, start>>

storeVars == <<store, home, syncs, load, cmd, prev>>

vars == <<pc, panic, syncVars, storeVars>>

-----------------------------------------------------------------------------
\* Bounds

MaxTime == 2
MaxLocals == 2
MaxRemotes == 2
MaxCandidates == 3
MaxGroups == 2
MaxMembers == 2

-----------------------------------------------------------------------------
\* Strings

Str1(c) == <<c>>

RECURSIVE Concat(_)
\* the concatenation of a sequence of strings
Concat(ss) == IF ss = <<>> THEN <<>> ELSE Head(ss) \o Concat(Tail(ss))

\* str::starts_with
StartsWith(s, p) == Len(p) <= Len(s) /\ SubSeq(s, 1, Len(p)) = p

RECURSIVE FindFrom(_, _, _)
\* the first index >= i at which pat occurs in s, 0 if there is none
FindFrom(s, pat, i) ==
    IF i + Len(pat) - 1 > Len(s) THEN 0
    ELSE IF SubSeq(s, i, i + Len(pat) - 1) = pat THEN i
    ELSE FindFrom(s, pat, i + 1)

\* str::contains
Contains(s, pat) == FindFrom(s, pat, 1) # 0

\* str::split_once: <<>> for None, <<before, after>> for Some
SplitOnce(s, pat) ==
    LET i == FindFrom(s, pat, 1)
    IN IF i = 0 THEN <<>>
       ELSE <<SubSeq(s, 1, i - 1), SubSeq(s, i + Len(pat), Len(s))>>

RECURSIVE Split(_, _)
\* str::split with a non-empty pattern: always at least one fragment
Split(s, pat) ==
    LET i == FindFrom(s, pat, 1)
    IN IF i = 0 THEN <<s>>
       ELSE <<SubSeq(s, 1, i - 1)>> \o Split(SubSeq(s, i + Len(pat), Len(s)), pat)

RECURSIVE Join(_, _)
\* [String]::join
Join(ss, sep) ==
    IF ss = <<>> THEN <<>>
    ELSE IF Len(ss) = 1 THEN ss[1]
    ELSE ss[1] \o sep \o Join(Tail(ss), sep)

\* the sequences over S of length at most n
SeqUpTo(S, n) == UNION {[1..k -> S] : k \in 0..n}

-----------------------------------------------------------------------------
\* sync.rs: constants and helpers

SEPARATOR == <<"$", "R", "U", "S", "E", "P", "$">>
FILES_SEP == <<"$", "F", "I", "L", "E", "S", "$">>
NL == <<"\n">>
COLON == <<":">>

remote_to_path(dist_path) == dist_path[1] \o COLON \o dist_path[2]

\* Sync::new
NewSync(name) == [name |-> name, locals |-> <<>>, remotes |-> <<>>]

-----------------------------------------------------------------------------
\* The group store: add_files, remove_files, save_all, load_all

\* an absent value (no file, no report, None) is the empty tuple, a present
\* one the one-element tuple
NoFile == <<>>
NoReport == <<>>
None == <<>>
Some(x) == <<x>>

PathA == <<"/", "a">>
PathB == <<"/", "b">>
RelB == <<"b">>
RemoteA == <<Str1("h"), PathA>>
RemoteB == <<Str1("h"), PathB>>

\* Path::canonicalize(..).unwrap_or(base): the process runs in the directory
\* /, where the relative path b resolves to /b; a path that is canonical
\* already, or that does not resolve, is kept as it is
Canonicalize(file) == IF file = RelB THEN PathB ELSE file

\* Vec::retain(|y| y != x)
Retain(v, x) == SelectSeq(v, LAMBDA y : y # x)

\* Vec::contains
VecContains(v, x) == \E i \in 1..Len(v) : v[i] = x

RECURSIVE add_files_Dedup(_, _)
\* add_files if it skipped an input the group already holds
add_files_Dedup(self, files) ==
    IF files = <<>> THEN [sync |-> self, out |-> <<>>]
    ELSE LET file == Head(files)
             dist_path == SplitOnce(file, COLON)
             added == IF dist_path # <<>>
                      THEN IF VecContains(self.remotes, dist_path) THEN self
                           ELSE [self EXCEPT !.remotes = Append(@, dist_path)]
                      ELSE IF VecContains(self.locals, Canonicalize(file)) THEN self
                           ELSE [self EXCEPT !.locals = Append(@, Canonicalize(file))]
             rest == add_files_Dedup(added, Tail(files))
         IN [sync |-> rest.sync, out |-> <<dist_path # <<>> >> \o rest.out]

RECURSIVE add_files(_, _)
\* Sync::add_files: the group after the call and the Vec<bool> returned
add_files(self, files) ==
    IF files = <<>> THEN [sync |-> self, out |-> <<>>]
    ELSE LET file == Head(files)
             dist_path == SplitOnce(file, COLON)
             added == IF dist_path # <<>>
                      THEN [self EXCEPT !.remotes = Append(@, dist_path)]
                      ELSE [self EXCEPT !.locals = Append(@, Canonicalize(file))]
             rest == add_files(added, Tail(files))
         IN [sync |-> rest.sync, out |-> <<dist_path # <<>> >> \o rest.out]

\* v without its first element equal to x
RemoveFirst(v, x) ==
    LET i == CHOOSE j \in 1..Len(v) : v[j] = x /\ \A l \in 1..(j - 1) : v[l] # x
    IN SubSeq(v, 1, i - 1) \o SubSeq(v, i + 1, Len(v))

RECURSIVE remove_files_FirstOnly(_, _)
\* remove_files if it removed the first occurrence only
remove_files_FirstOnly(self, files) ==
    IF files = <<>> THEN [sync |-> self, out |-> <<>>]
    ELSE LET file == Head(files)
             conv == SplitOnce(file, COLON)
             hit == IF conv # <<>> THEN VecContains(self.remotes, conv)
                    ELSE VecContains(self.locals, file)
             removed == IF ~hit THEN self
                        ELSE IF conv # <<>>
                        THEN [self EXCEPT !.remotes = RemoveFirst(@, conv)]
                        ELSE [self EXCEPT !.locals = RemoveFirst(@, file)]
             rest == remove_files_FirstOnly(removed, Tail(files))
         IN [sync |-> rest.sync, out |-> << <<hit, conv # <<>> >> >> \o rest.out]

RECURSIVE remove_files_Canonical(_, _)
\* remove_files if it resolved a local input the way add_files does before
\* looking for it
remove_files_Canonical(self, files) ==
    IF files = <<>> THEN [sync |-> self, out |-> <<>>]
    ELSE LET file == Head(files)
             conv == SplitOnce(file, COLON)
             hit == IF conv # <<>> THEN VecContains(self.remotes, conv)
                    ELSE VecContains(self.locals, Canonicalize(file))
             removed == IF ~hit THEN self
                        ELSE IF conv # <<>>
                        THEN [self EXCEPT !.remotes = Retain(@, conv)]
                        ELSE [self EXCEPT !.locals = Retain(@, Canonicalize(file))]
             rest == remove_files_Canonical(removed, Tail(files))
         IN [sync |-> rest.sync, out |-> << <<hit, conv # <<>> >> >> \o rest.out]

RECURSIVE remove_files(_, _)
\* Sync::remove_files: the group after the call and the Vec<(bool, bool)>
\* returned
remove_files(self, files) ==
    IF files = <<>> THEN [sync |-> self, out |-> <<>>]
    ELSE LET file == Head(files)
             conv == SplitOnce(file, COLON)
             hit == IF conv # <<>> THEN VecContains(self.remotes, conv)
                    ELSE VecContains(self.locals, file)
             removed == IF ~hit THEN self
                        ELSE IF conv # <<>>
                        THEN [self EXCEPT !.remotes = Retain(@, conv)]
                        ELSE [self EXCEPT !.locals = Retain(@, file)]
             rest == remove_files(removed, Tail(files))
         IN [sync |-> rest.sync, out |-> << <<hit, conv # <<>> >> >> \o rest.out]

\* the text save_all writes for one group
SerializeSync(sync) ==
    SEPARATOR \o sync.name \o FILES_SEP \o Join(sync.locals, NL)
    \o (IF sync.remotes # <<>>
        THEN NL \o Join([i \in 1..Len(sync.remotes) |-> remote_to_path(sync.remotes[i])], NL)
        ELSE <<>>)

\* the string s save_all builds
Serialize(ss) == Concat([i \in 1..Len(ss) |-> SerializeSync(ss[i])])

\* load_all's treatment of one fragment of the split: nothing when it has no
\* FILES_SEP, else one group, with members only when files has a newline
ParseFragment(el) ==
    LET parts == SplitOnce(el, FILES_SEP)
    IN IF parts = <<>> THEN <<>>
       ELSE LET name == parts[1]
                files == parts[2]
                new_sync == NewSync(name)
            IN IF Contains(files, NL) /\ files # <<>>
               THEN <<add_files(new_sync, Split(files, NL)).sync>>
               ELSE <<new_sync>>

\* the Vec<Sync> load_all builds from the contents of the store file
Parse(s) ==
    LET els == Split(s, SEPARATOR)
    IN Concat([i \in 1..Len(els) |-> ParseFragment(els[i])])

\* name_matches with receiver and argument exchanged
name_matches_Reversed(self, name) == StartsWith(name, self.name)

\* Sync::name_matches
name_matches(self, name) == StartsWith(self.name, name)

\* select_by_name resolving an ambiguity in favour of the first match
select_by_name_FirstMatch(ss, name, error) ==
    LET v == SelectSeq(ss, LAMBDA x : name_matches(x, name))
    IN IF Len(v) = 0 THEN [result |-> None, printed |-> error]
       ELSE [result |-> Some(v[1].name), printed |-> FALSE]

\* select_by_name resolving an ambiguity in favour of the group whose name is
\* the query
select_by_name_ExactWins(ss, name, error) ==
    LET v == SelectSeq(ss, LAMBDA x : StartsWith(x.name, name))
        exact == SelectSeq(v, LAMBDA x : x.name = name)
    IN IF Len(v) = 0 THEN [result |-> None, printed |-> error]
       ELSE IF Len(v) = 1 THEN [result |-> Some(v[1].name), printed |-> FALSE]
       ELSE IF Len(exact) >= 1 THEN [result |-> Some(name), printed |-> FALSE]
       ELSE [result |-> None, printed |-> error]

\* select_by_name: the Option<String> returned and whether an error was printed
select_by_name(ss, name, error) ==
    LET v == SelectSeq(ss, LAMBDA x : name_matches(x, name))
    IN IF Len(v) = 0 THEN [result |-> None, printed |-> error]
       ELSE IF Len(v) = 1 THEN [result |-> Some(v[1].name), printed |-> FALSE]
       ELSE [result |-> None, printed |-> error]

\* iter().find(|x| x.name == name): the index of the first group of that name
FindByName(ss, name) == CHOOSE i \in 1..Len(ss) :
    ss[i].name = name /\ \A j \in 1..(i - 1) : ss[j].name # name

NoLoad == [home |-> TRUE, existed |-> FALSE, opened |-> FALSE, readFailed |-> FALSE,
           returned |-> FALSE, before |-> NoFile, after |-> NoFile]
NoCmd == [op |-> "", name |-> <<>>, files |-> <<>>, sel |-> None, out |-> <<>>,
          before |-> <<>>]

\* no process is running on the store
StoreIdle ==
    /\ store = NoFile
    /\ home = TRUE
    /\ syncs = <<>>
    /\ load = NoLoad
    /\ cmd = NoCmd
    /\ prev = NoFile

-----------------------------------------------------------------------------
\* Sync::sync

SyncLocals == {PathA, PathB}
SyncRemotes == {RemoteA, RemoteB}
Locations == SyncLocals \cup {remote_to_path(r) : r \in SyncRemotes}

FileTimes == 0..MaxTime
ScratchTimes == {NoFile} \cup {Some(t) : t \in -1..MaxTime}

\* the groups sync is run on
SyncGroups ==
    {g \in [name : {Str1("g")}, locals : SeqUpTo(SyncLocals, MaxLocals),
             remotes : SeqUpTo(SyncRemotes, MaxRemotes)] :
        Len(g.locals) + Len(g.remotes) <= MaxCandidates}

\* the panic messages
NoPanic == ""
PanicScp == "failed to run scp"
PanicUnwrap == "called Option::unwrap() on a None value"

\* the outcomes of one call of scp: an exit code, None when the child was
\* killed by a signal, or a failure to launch the child
ExitOk == "Some(0)"
ExitFail == "Some(1)"
ScpOutcomes == {ExitOk, ExitFail, "None", "launch"}

\* what the staging loop makes of scp's result: Some(0) stages the remote,
\* every other result skips it, a failure to launch panics
Staged == "staged"
Skipped == "skipped"
StagingOf(res) ==
    IF res = ExitOk THEN Staged ELSE IF res = "launch" THEN "launch" ELSE Skipped

\* get_mtime: 0 when the file cannot be opened
get_mtime(m) == IF m = NoFile THEN 0 ELSE m[1]

\* the candidates in order: locals, then remotes formatted as host:path
Candidates(g) ==
    g.locals \o [i \in 1..Len(g.remotes) |-> remote_to_path(g.remotes[i])]

\* Classify with the tie taken for a new leader: a candidate as recent as
\* latest demotes the others
Classify_TieDemotes(st, c, mtime) ==
    IF mtime >= st.latest
    THEN [latest |-> mtime, targets |-> st.targets \o st.others, others |-> <<c>>]
    ELSE [st EXCEPT !.targets = Append(st.targets, c)]

\* one iteration's classification of candidate c with modification time mtime
Classify(st, c, mtime) ==
    IF mtime > st.latest
    THEN [latest |-> mtime, targets |-> st.targets \o st.others, others |-> <<c>>]
    ELSE IF mtime = st.latest
    THEN [st EXCEPT !.others = Append(st.others, c)]
    ELSE [st EXCEPT !.targets = Append(st.targets, c)]

Partition0 == [latest |-> 0, targets |-> <<>>, others |-> <<>>]

SyncInit ==
    /\ pc = "idle"
    /\ group \in SyncGroups
    /\ fs \in [Locations -> FileTimes]
    /\ \A l \in Locations :
          (\A i \in 1..Len(Candidates(group)) : Candidates(group)[i] # l) => fs[l] = 0
    /\ dstMtime \in ScratchTimes
    /\ idx = 0
    /\ latest = 0
    /\ targets = <<>>
    /\ others = <<>>
    /\ reads = <<>>
    /\ staged = <<>>
    /\ transfers = <<>>
    /\ updated = 0
    /\ printed = NoReport
    /\ start = [fs |-> fs, dst |-> dstMtime]
    /\ panic = NoPanic
    /\ StoreIdle

\* sync is called: latest, targets and others are initialised
SyncBegin ==
    /\ pc = "idle"
    /\ pc' = "locals"
    /\ idx' = 1
    /\ latest' = Partition0.latest
    /\ targets' = Partition0.targets
    /\ others' = Partition0.others
    /\ reads' = <<>>
    /\ staged' = <<>>
    /\ transfers' = <<>>
    /\ updated' = 0
    /\ printed' = NoReport
    /\ start' = [fs |-> fs, dst |-> dstMtime]
    /\ UNCHANGED <<group, fs, dstMtime, panic>>
    /\ UNCHANGED storeVars

\* one iteration of the loop over self.locals; the loop ends when idx passes
\* the last local
SyncLocal ==
    /\ pc = "locals"
    /\ IF idx <= Len(group.locals)
       THEN LET mtime == get_mtime(dstMtime)
                st == Classify([latest |-> latest, targets |-> targets,
                                others |-> others], idx, mtime)
            IN /\ latest' = st.latest
               /\ targets' = st.targets
               /\ others' = st.others
               /\ reads' = Append(reads, <<idx, mtime>>)
               /\ idx' = idx + 1
               /\ pc' = pc
       ELSE /\ pc' = "remotes"
            /\ idx' = 1
            /\ UNCHANGED <<latest, targets, others, reads>>
    /\ UNCHANGED <<group, fs, dstMtime, staged, transfers, updated, printed, start,
                   panic>>
    /\ UNCHANGED storeVars

\* one iteration of the loop over remote_paths: the remote is staged into the
\* scratch file and classified when scp returned Some(0)
SyncRemote ==
    /\ pc = "remotes"
    /\ idx <= Len(group.remotes)
    /\ \E res \in ScpOutcomes :
          LET c == Len(group.locals) + idx
              path == remote_to_path(group.remotes[idx])
          IN /\ staged' = Append(staged, StagingOf(res))
             /\ IF res = "launch"
                THEN /\ pc' = "panic"
                     /\ panic' = PanicScp
                     /\ UNCHANGED <<dstMtime, latest, targets, others, reads, idx>>
                ELSE IF res = ExitOk
                THEN LET copy == Some(fs[path])
                         mtime == get_mtime(copy)
                         st == Classify([latest |-> latest, targets |-> targets,
                                         others |-> others], c, mtime)
                     IN /\ dstMtime' = copy
                        /\ panic' = panic
                        /\ latest' = st.latest
                        /\ targets' = st.targets
                        /\ others' = st.others
                        /\ reads' = Append(reads, <<c, mtime>>)
                        /\ idx' = idx + 1
                        /\ pc' = pc
                ELSE /\ idx' = idx + 1
                     /\ pc' = pc
                     /\ UNCHANGED <<dstMtime, latest, targets, others, reads, panic>>
    /\ UNCHANGED <<group, fs, transfers, updated, printed, start>>
    /\ UNCHANGED storeVars

\* others.first().unwrap()
SyncSource ==
    /\ pc = "remotes"
    /\ idx > Len(group.remotes)
    /\ pc' = IF others = <<>> THEN "panic" ELSE "propagate"
    /\ panic' = IF others = <<>> THEN PanicUnwrap ELSE panic
    /\ idx' = 1
    /\ UNCHANGED <<group, fs, dstMtime, latest, targets, others, reads, staged,
                   transfers, updated, printed, start>>
    /\ UNCHANGED storeVars

\* the source taken from the end of others
Source_Last == Candidates(group)[others[Len(others)]]

\* the source of the propagation
Source == Candidates(group)[others[1]]

\* one iteration of the loop over targets: scp(source, target), its result
\* ignored
SyncPropagate ==
    /\ pc = "propagate"
    /\ idx <= Len(targets)
    /\ \E res \in ScpOutcomes :
          LET target == Candidates(group)[targets[idx]]
          IN /\ transfers' = Append(transfers, <<Source, target>>)
             /\ IF res = "launch"
                THEN /\ pc' = "panic"
                     /\ panic' = PanicScp
                     /\ UNCHANGED <<fs, idx, updated>>
                ELSE /\ fs' = IF res = ExitOk THEN [fs EXCEPT ![target] = fs[Source]]
                                             ELSE fs
                     /\ updated' = IF res = ExitOk THEN updated + 1 ELSE updated
                     /\ idx' = idx + 1
                     /\ pc' = pc
                     /\ panic' = panic
    /\ UNCHANGED <<group, dstMtime, latest, targets, others, reads, staged, printed,
                   start>>
    /\ UNCHANGED storeVars

\* the report after the loop over targets
SyncReport ==
    /\ pc = "propagate"
    /\ idx > Len(targets)
    /\ pc' = "done"
    /\ printed' = IF targets # <<>> THEN Some(Len(targets)) ELSE NoReport
    /\ UNCHANGED <<group, fs, dstMtime, idx, latest, targets, others, reads,
                   staged, transfers, updated, start, panic>>
    /\ UNCHANGED storeVars

\* the process ends, normally or by a panic; the next invocation starts from
\* the files it left
SyncExit ==
    /\ pc \in {"done", "panic"}
    /\ pc' = "idle"
    /\ panic' = NoPanic
    /\ UNCHANGED syncVars
    /\ UNCHANGED storeVars

SyncNext ==
    \/ SyncBegin
    \/ SyncLocal
    \/ SyncRemote
    \/ SyncSource
    \/ SyncPropagate
    \/ SyncReport
    \/ SyncExit

SyncSpec == SyncInit /\ [][SyncNext]_vars

-----------------------------------------------------------------------------
\* main: one process per command, load_all first, save_all after a mutation

PanicHome == "couldn't get home path"
PanicOpen == "couldn't open"
PanicReopen == "called Result::unwrap() on an Err value"
PanicRead == "couldn't read"
PanicSave == "couldn't save sync"

NameA == <<"a">>
NameAB == <<"a", "b">>

\* the names given on the command line
Names == {NameA, NameAB}

\* the names given to new: new takes any string, also one holding a separator
NameSep == NameA \o FILES_SEP
NewNames == Names \cup {NameSep}

\* the file lists given on the command line
FileLists ==
    {<<>>, <<PathA>>, <<RelB>>, <<remote_to_path(RemoteA)>>,
     <<PathA, PathA>>, <<PathA, RelB>>, <<PathA, remote_to_path(RemoteA)>>,
     <<remote_to_path(RemoteA), PathA>>}

\* the number of members held by the collection
RECURSIVE Members(_)
Members(ss) ==
    IF ss = <<>> THEN 0
    ELSE Len(Head(ss).locals) + Len(Head(ss).remotes) + Members(Tail(ss))

\* no sync is running
SyncIdle ==
    /\ group = NewSync(Str1("g"))
    /\ fs = [l \in Locations |-> 0]
    /\ dstMtime = NoFile
    /\ idx = 0
    /\ latest = 0
    /\ targets = <<>>
    /\ others = <<>>
    /\ reads = <<>>
    /\ staged = <<>>
    /\ transfers = <<>>
    /\ updated = 0
    /\ printed = NoReport
    /\ start = [fs |-> fs, dst |-> dstMtime]

Init ==
    /\ pc = "idle"
    /\ panic = NoPanic
    /\ StoreIdle
    /\ SyncIdle

\* Sync::load_all at the start of main.  h: home_dir() resolves; opened: the
\* first File::open succeeds; created: File::create in the save_all of the
\* first run succeeds; reopened: the second File::open succeeds; readable:
\* read_to_string succeeds
LoadAll ==
    /\ pc = "idle"
    /\ \E h, opened, created, reopened, readable \in BOOLEAN :
          /\ opened => store # NoFile
          /\ home' = h
          /\ LET hist == [NoLoad EXCEPT !.home = h, !.existed = store # NoFile,
                                         !.opened = opened, !.before = store]
                 Return(ss, st) ==
                     /\ pc' = "loaded"
                     /\ panic' = NoPanic
                     /\ syncs' = ss
                     /\ store' = st
                     /\ load' = [hist EXCEPT !.returned = TRUE, !.after = st]
                 Panic(msg, st) ==
                     /\ pc' = "panic"
                     /\ panic' = msg
                     /\ syncs' = <<>>
                     /\ store' = st
                     /\ load' = [hist EXCEPT !.returned = FALSE, !.after = st,
                                              !.readFailed = (msg = PanicRead)]
             IN IF ~h THEN Return(<<>>, store)
                ELSE IF opened
                THEN IF readable THEN Return(Parse(store[1]), store)
                     ELSE Panic(PanicRead, store)
                ELSE IF ~created THEN Panic(PanicOpen, store)
                ELSE IF ~reopened THEN Panic(PanicReopen, Some(Serialize(<<>>)))
                ELSE IF ~readable THEN Panic(PanicRead, Some(Serialize(<<>>)))
                ELSE Return(Parse(Serialize(<<>>)), Some(Serialize(<<>>)))
    /\ UNCHANGED <<cmd, prev>>
    /\ UNCHANGED syncVars

\* Commands::New
CmdNew ==
    /\ pc = "loaded"
    /\ \E name \in NewNames :
          LET sel == select_by_name(syncs, name, FALSE)
          IN /\ cmd' = [NoCmd EXCEPT !.op = "new", !.name = name, !.sel = sel.result,
                                   !.before = syncs]
             /\ IF sel.result # None
                THEN /\ pc' = "done"
                     /\ syncs' = syncs
                ELSE /\ Len(syncs) < MaxGroups
                     /\ syncs' = Append(syncs, NewSync(name))
                     /\ pc' = "save"
    /\ UNCHANGED <<panic, store, home, load, prev>>
    /\ UNCHANGED syncVars

\* Commands::Del
CmdDel ==
    /\ pc = "loaded"
    /\ \E name \in Names :
          LET sel == select_by_name(syncs, name, TRUE)
          IN /\ cmd' = [NoCmd EXCEPT !.op = "del", !.name = name, !.sel = sel.result,
                                   !.before = syncs]
             /\ IF sel.result # None
                THEN /\ syncs' = SelectSeq(syncs, LAMBDA x : x.name # sel.result[1])
                     /\ pc' = "save"
                ELSE /\ syncs' = syncs
                     /\ pc' = "done"
    /\ UNCHANGED <<panic, store, home, load, prev>>
    /\ UNCHANGED syncVars

\* Commands::Show
CmdShow ==
    /\ pc = "loaded"
    /\ \E name \in Names :
          LET sel == select_by_name(syncs, name, TRUE)
          IN /\ cmd' = [NoCmd EXCEPT !.op = "show", !.name = name, !.sel = sel.result,
                                   !.before = syncs]
             /\ pc' = "done"
    /\ UNCHANGED <<panic, store, home, syncs, load, prev>>
    /\ UNCHANGED syncVars

\* Commands::Add
CmdAdd ==
    /\ pc = "loaded"
    /\ \E name \in Names, files \in FileLists :
          LET sel == select_by_name(syncs, name, TRUE)
          IN IF sel.result # None
             THEN LET i == FindByName(syncs, sel.result[1])
                      res == add_files(syncs[i], files)
                  IN /\ Members(syncs) + Len(files) <= MaxMembers
                     /\ syncs' = [syncs EXCEPT ![i] = res.sync]
                     /\ cmd' = [op |-> "add", name |-> name, files |-> files,
                                sel |-> sel.result, out |-> res.out,
                                before |-> syncs]
                     /\ pc' = "save"
             ELSE /\ syncs' = syncs
                  /\ cmd' = [NoCmd EXCEPT !.op = "add", !.name = name, !.files = files,
                                           !.before = syncs]
                  /\ pc' = "done"
    /\ UNCHANGED <<panic, store, home, load, prev>>
    /\ UNCHANGED syncVars

\* Commands::Rm
CmdRm ==
    /\ pc = "loaded"
    /\ \E name \in Names, files \in FileLists :
          LET sel == select_by_name(syncs, name, TRUE)
          IN IF sel.result # None
             THEN LET i == FindByName(syncs, sel.result[1])
                      res == remove_files(syncs[i], files)
                  IN /\ syncs' = [syncs EXCEPT ![i] = res.sync]
                     /\ cmd' = [op |-> "rm", name |-> name, files |-> files,
                                sel |-> sel.result, out |-> res.out,
                                before |-> syncs]
                     /\ pc' = "save"
             ELSE /\ syncs' = syncs
                  /\ cmd' = [NoCmd EXCEPT !.op = "rm", !.name = name, !.files = files,
                                           !.before = syncs]
                  /\ pc' = "done"
    /\ UNCHANGED <<panic, store, home, load, prev>>
    /\ UNCHANGED syncVars

\* save_all up to File::create, which truncates the store file
SaveCreate ==
    /\ pc = "save"
    /\ prev' = store
    /\ IF ~home
       THEN /\ pc' = "panic"
            /\ panic' = PanicHome
            /\ store' = store
       ELSE \E created \in BOOLEAN :
               IF created
               THEN /\ store' = Some(<<>>)
                    /\ pc' = "write"
                    /\ panic' = panic
               ELSE /\ store' = store
                    /\ pc' = "panic"
                    /\ panic' = PanicOpen
    /\ UNCHANGED <<home, syncs, load, cmd>>
    /\ UNCHANGED syncVars

\* what a write_all that fails may leave in the file: a proper prefix of s,
\* here nothing at all or everything but the last byte
PartialWrites(s) == {SubSeq(s, 1, n) : n \in {0, Len(s) - 1} \cap (0..(Len(s) - 1))}

\* save_all from the building of s to file.write_all
SaveWrite ==
    /\ pc = "write"
    /\ LET s == Serialize(syncs)
       IN \/ /\ store' = Some(s)
             /\ pc' = "done"
             /\ panic' = panic
          \/ \E part \in PartialWrites(s) :
                /\ store' = Some(part)
                /\ pc' = "panic"
                /\ panic' = PanicSave
    /\ UNCHANGED <<home, syncs, load, cmd, prev>>
    /\ UNCHANGED syncVars

\* the process ends, normally or by a panic
Exit ==
    /\ pc \in {"done", "panic"}
    /\ pc' = "idle"
    /\ panic' = NoPanic
    /\ home' = TRUE
    /\ syncs' = <<>>
    /\ load' = NoLoad
    /\ cmd' = NoCmd
    /\ prev' = NoFile
    /\ UNCHANGED store
    /\ UNCHANGED syncVars

Next ==
    \/ LoadAll
    \/ CmdNew
    \/ CmdDel
    \/ CmdShow
    \/ CmdAdd
    \/ CmdRm
    \/ SaveCreate
    \/ SaveWrite
    \/ Exit

Spec == Init /\ [][Next]_vars

-----------------------------------------------------------------------------
\* Properties of Sync::sync

SeqToSet(q) == {q[k] : k \in 1..Len(q)}

\* the candidate strings of a sequence of candidate indices of group g
CandNames(g, q) == [k \in 1..Len(q) |-> Candidates(g)[q[k]]]

\* the partition loops have ended and the partition is final
PartitionDone ==
    \/ pc = "remotes" /\ idx > Len(group.remotes)
    \/ pc \in {"propagate", "done"}
    \/ pc = "panic" /\ panic = PanicUnwrap

RECURSIVE PartitionFrom(_, _, _)
\* the partition loops as a fold over the modification times read, candidate
\* i having read times[i]
PartitionFrom(st, times, i) ==
    IF i > Len(times) THEN st
    ELSE PartitionFrom(Classify(st, i, times[i]), times, i + 1)

\* the times a run reads on the files s when every remote of g stages
TimesRead(g, s) ==
    [i \in 1..Len(Candidates(g)) |->
        IF i <= Len(g.locals) THEN get_mtime(s.dst)
        ELSE get_mtime(Some(s.fs[Candidates(g)[i]]))]

\* C1: when sync reaches the Propagate step, the own file of the source is at
\* least as recent as the own file of every candidate collected, so that no
\* member newer than the source is overwritten by it.
C1_NewestCopyWins ==
    (pc = "propagate" /\ idx = 1) =>
        \A c \in SeqToSet(others) \cup SeqToSet(targets) :
            fs[Source] >= fs[Candidates(group)[c]]

\* C5: sync on a group with no candidate, or with no local and remotes that
\* all fail to stage, completes normally as a no-op: no transfer, no report,
\* no abnormal termination.
C5_EmptyFreshestSetGuarded ==
    ( /\ group.locals = <<>>
      /\ pc \notin {"idle", "locals"}
      /\ \A i \in 1..Len(staged) : staged[i] = Skipped
      /\ PartitionDone )
    => (pc # "panic" /\ panic = NoPanic /\ transfers = <<>> /\ printed = NoReport)

Max(S) == CHOOSE m \in S : \A x \in S : x <= m

\* C6: when every time read is non-negative, at the end of the partition
\* others is the set of candidates whose read time is the maximum, targets
\* the set of those strictly below it, and each processed candidate is in
\* exactly one of them, once; times [5,3,5,7,2] give others = {4th} and
\* targets the four others, and equal times give empty targets.
C6_FreshnessPartition ==
    /\ ( PartitionDone /\ reads # <<>> /\ \A k \in 1..Len(reads) : reads[k][2] >= 0 )
       => LET mx == Max({reads[k][2] : k \in 1..Len(reads)})
          IN /\ SeqToSet(others) = {reads[k][1] : k \in {j \in 1..Len(reads) : reads[j][2] = mx}}
             /\ SeqToSet(targets) = {reads[k][1] : k \in {j \in 1..Len(reads) : reads[j][2] < mx}}
             /\ SeqToSet(others) \cap SeqToSet(targets) = {}
             /\ Len(others) + Len(targets) = Len(reads)
             /\ Cardinality(SeqToSet(others) \cup SeqToSet(targets)) = Len(reads)
    /\ ( PartitionDone /\ reads = <<>> ) => (others = <<>> /\ targets = <<>>)
    /\ LET ex == PartitionFrom(Partition0, <<5, 3, 5, 7, 2>>, 1)
       IN SeqToSet(ex.others) = {4} /\ SeqToSet(ex.targets) = {1, 2, 3, 5}
          /\ Len(ex.others) = 1 /\ Len(ex.targets) = 4
    /\ \A t \in 0..MaxTime :
          LET eq == PartitionFrom(Partition0, <<t, t, t>>, 1)
          IN eq.targets = <<>> /\ SeqToSet(eq.others) = {1, 2, 3}

\* a partition ended with two co-freshest candidates and a stale one
C6_Witness ==
    /\ pc = "propagate"
    /\ Len(others) = 2
    /\ Len(targets) = 1
    /\ \A k \in 1..Len(reads) : reads[k][2] >= 0

\* C9: a transfer that fails, by its exit status or by failing to launch,
\* never terminates the run: every remote is staged, every remote staged with
\* success is classified, and every target receives one transfer from the
\* source.
C9_TransferFailuresNonFatal ==
    /\ panic # PanicScp
    /\ pc = "done" =>
          /\ Len(staged) = Len(group.remotes)
          /\ \A i \in 1..Len(staged) :
                staged[i] = Staged =>
                    (Len(group.locals) + i) \in SeqToSet(others) \cup SeqToSet(targets)
          /\ transfers = [k \in 1..Len(targets) |->
                             <<Source, Candidates(group)[targets[k]]>>]

\* the group without the remotes whose staging failed
WithoutFailed ==
    LET ok == {i \in 1..Len(staged) : staged[i] = Staged}
        F[i \in 0..Len(group.remotes)] ==
            IF i = 0 THEN <<>>
            ELSE IF i \in ok \/ i > Len(staged) THEN Append(F[i - 1], group.remotes[i])
            ELSE F[i - 1]
    IN [group EXCEPT !.remotes = F[Len(group.remotes)]]

\* C10: a run in which a remote fails to stage produces the others, the
\* targets, the source and the propagation transfers of the run on the group
\* without that remote.
C10_StagingFailureEqualsAbsence ==
    (\E i \in 1..Len(staged) : staged[i] # Staged) =>
        LET g == WithoutFailed
            ref == PartitionFrom(Partition0, TimesRead(g, start), 1)
            refTransfers ==
                IF ref.others = <<>> THEN <<>>
                ELSE [k \in 1..Len(ref.targets) |->
                         <<Candidates(g)[ref.others[1]], Candidates(g)[ref.targets[k]]>>]
        IN /\ ~(pc = "panic" /\ panic = PanicScp /\ transfers = <<>>)
           /\ PartitionDone =>
                 /\ SeqToSet(CandNames(group, others)) = SeqToSet(CandNames(g, ref.others))
                 /\ SeqToSet(CandNames(group, targets)) = SeqToSet(CandNames(g, ref.targets))
                 /\ (others = <<>>) = (ref.others = <<>>)
                 /\ (others # <<>>) => Source = Candidates(g)[ref.others[1]]
                 /\ Len(transfers) <= Len(refTransfers)
                 /\ transfers = SubSeq(refTransfers, 1, Len(transfers))
                 /\ pc = "done" => transfers = refTransfers

\* C13: at the end of a run a report is printed only if at least one
\* propagation transfer wrote its target, the count reported is the number
\* of targets written, and a run that wrote none prints nothing.
C13_ReportsOnlyRealChanges ==
    pc = "done" =>
       /\ printed # NoReport => (updated >= 1 /\ printed = Some(updated))
       /\ updated = 0 => printed = NoReport

\* every remote of the group was staged
AllStaged ==
    /\ Len(staged) = Len(group.remotes)
    /\ \A i \in 1..Len(staged) : staged[i] = Staged

\* C15: the partition of a run is the one computed from the group's own
\* files whatever the scratch file held when the run started, that is
\* whatever an earlier synchronization left in it.
C15_GroupIsolation ==
    (PartitionDone /\ AllStaged) =>
       \A d \in ScratchTimes :
          LET ref == PartitionFrom(Partition0,
                                   TimesRead(group, [fs |-> start.fs, dst |-> d]), 1)
          IN ref.targets = targets /\ ref.others = others

\* the first candidate, in candidate order, among those whose read time is
\* the maximum read
FirstFreshest ==
    LET mx == Max({reads[k][2] : k \in 1..Len(reads)})
        top == {reads[k][1] : k \in {j \in 1..Len(reads) : reads[j][2] = mx}}
    IN CHOOSE c \in top : \A x \in top : c <= x

\* C16: once the partition has a source, it is the first candidate in
\* candidate order among those whose read time is the maximum, and every
\* propagation transfer of the run copies from that one candidate.
C16_TieBreakOrder ==
    (pc \in {"propagate", "done"} \/ transfers # <<>>) =>
       /\ others[1] = FirstFreshest
       /\ \A k \in 1..Len(transfers) :
             transfers[k][1] = Candidates(group)[FirstFreshest]

\* a run ended in which two different candidates shared the maximum and a
\* third was updated
C16_Witness ==
    /\ pc = "done"
    /\ Len(others) = 2
    /\ Candidates(group)[others[1]] # Candidates(group)[others[2]]
    /\ Len(transfers) = 1
    /\ \A k \in 1..Len(reads) : reads[k][2] >= 0

\* C17: a run on a group with one candidate, a local or a remote that was
\* staged, ends its partition with empty targets, makes no propagation
\* transfer, reports nothing and does not end abnormally.
C17_SingleCandidateNoOp ==
    (Len(Candidates(group)) = 1 /\ PartitionDone /\ AllStaged) =>
       /\ targets = <<>>
       /\ transfers = <<>>
       /\ printed = NoReport
       /\ pc # "panic"

-----------------------------------------------------------------------------
\* Properties of the store and of the command layer

\* the running process has completed a save_all
Saved == pc = "done" /\ prev # NoFile

\* C2: save_all followed by load_all yields the collection saved: the same
\* group names in the same order, each with the same locals and remotes.
C2_RoundTrip == Saved => Parse(store[1]) = syncs

\* C3: starting from an empty store, after any sequence of new, del, add and
\* rm, no two groups of the collection have the same name.
C3_NameUniqueness ==
    \A i, j \in 1..Len(syncs) : i # j => syncs[i].name # syncs[j].name

\* the queries select_by_name is asked
Queries == Names \cup {<<>>, <<"b">>}

\* the positions of the groups whose name starts with query
Matching(ss, query) == {i \in 1..Len(ss) : StartsWith(ss[i].name, query)}

\* C4: select_by_name returns the name of the matching group when exactly one
\* group's name starts with the query and None otherwise, whatever error is,
\* also when one of several matching names is the query itself.
C4_SelectByName ==
    /\ \A query \in Queries, error \in BOOLEAN :
          LET m == Matching(syncs, query)
              r == select_by_name(syncs, query, error).result
          IN /\ Cardinality(m) = 1 => \E i \in m : r = Some(syncs[i].name)
             /\ Cardinality(m) # 1 => r = None
    /\ (pc = "done" /\ cmd.op = "show") =>
          LET m == Matching(syncs, cmd.name)
          IN /\ Cardinality(m) = 1 => \E i \in m : cmd.sel = Some(syncs[i].name)
             /\ Cardinality(m) # 1 => cmd.sel = None

\* show a was run on a collection holding a and ab and resolved to nothing
C4_Witness ==
    /\ pc = "done"
    /\ cmd.op = "show"
    /\ cmd.name = NameA
    /\ cmd.sel = None
    /\ \E i, j \in 1..Len(syncs) : syncs[i].name = NameA /\ syncs[j].name = NameAB

\* C7: during and after save_all, also when the write fails, the store file
\* holds the complete serialization of the previous collection or that of
\* the new one.
C7_AtomicSave ==
    (pc = "write" \/ (pc = "panic" /\ panic = PanicSave) \/ Saved)
    => store \in {prev, Some(Serialize(syncs))}

\* C8: load_all returns a collection only when the store was read or did not
\* exist; when the home directory does not resolve, or the store exists and
\* cannot be opened or read, it ends the process, returns nothing and leaves
\* the store as it was.
C8_LoadFailFast ==
    /\ load.returned => (load.home /\ (load.opened \/ ~load.existed))
    /\ (~load.home \/ (load.existed /\ ~load.opened) \/ load.readFailed)
       => (~load.returned /\ load.after = load.before)

\* a command has run: syncs is the collection it leaves
CmdRan(op) == cmd.op = op /\ pc \in {"save", "write", "done", "panic"}

\* the position in the collection of the group a command resolved
Resolved == FindByName(cmd.before, cmd.sel[1])

\* the member an input of remove_files names and the list it is looked up in
RmTarget(file) == IF Contains(file, COLON) THEN SplitOnce(file, COLON) ELSE file
RmList(self, file) == IF Contains(file, COLON) THEN self.remotes ELSE self.locals

\* the inputs remove_files is asked about
RmInputs == {PathA, PathB, RelB, remote_to_path(RemoteA), remote_to_path(RemoteB)}

\* C11: remove_files returns one (removed, wasRemote) pair per input in input
\* order; an input is reported removed only if the identical local string or
\* the identical (host, path) pair was in the group, the members that
\* disappear are exactly those identical to an input, and an input that
\* matches nothing gives removed = false and leaves the group as it was.
C11_RemoveExactMatch ==
    /\ (CmdRan("rm") /\ cmd.sel # None) =>
          LET b == cmd.before[Resolved]
              a == syncs[Resolved]
              files == cmd.files
              out == cmd.out
          IN /\ Len(out) = Len(files)
             /\ \A k \in 1..Len(files) :
                   /\ out[k][2] = Contains(files[k], COLON)
                   /\ out[k][1] => VecContains(RmList(b, files[k]), RmTarget(files[k]))
             /\ a.locals = SelectSeq(b.locals, LAMBDA y :
                    ~\E k \in 1..Len(files) :
                        ~Contains(files[k], COLON) /\ files[k] = y)
             /\ a.remotes = SelectSeq(b.remotes, LAMBDA y :
                    ~\E k \in 1..Len(files) :
                        Contains(files[k], COLON) /\ SplitOnce(files[k], COLON) = y)
             /\ (\A k \in 1..Len(files) : ~out[k][1]) => a = b
    /\ (pc = "save" /\ cmd.op = "add") =>
       \A i \in 1..Len(syncs), file \in RmInputs :
          ~VecContains(RmList(syncs[i], file), RmTarget(file))
          => remove_files(syncs[i], <<file>>)
             = [sync |-> syncs[i], out |-> << <<FALSE, Contains(file, COLON)>> >>]

\* rm b was run on a group that holds /b: nothing matched, nothing was removed
C11_Witness ==
    /\ CmdRan("rm")
    /\ cmd.sel # None
    /\ cmd.files = <<RelB>>
    /\ cmd.out = << <<FALSE, FALSE>> >>
    /\ VecContains(cmd.before[Resolved].locals, PathB)
    /\ syncs = cmd.before

\* the inputs of add_files that go to locals, resolved, and those that go to
\* remotes, split at the first ':', both in input order
LocalInputs(files) ==
    LET v == SelectSeq(files, LAMBDA f : ~Contains(f, COLON))
    IN [k \in 1..Len(v) |-> Canonicalize(v[k])]
RemoteInputs(files) ==
    LET v == SelectSeq(files, LAMBDA f : Contains(f, COLON))
    IN [k \in 1..Len(v) |-> SplitOnce(v[k], COLON)]

\* what C12 says add_files does to the group before and returns
AddedTo(before, files, res) ==
    /\ res.out = [k \in 1..Len(files) |-> Contains(files[k], COLON)]
    /\ res.sync.name = before.name
    /\ res.sync.locals = before.locals \o LocalInputs(files)
    /\ res.sync.remotes = before.remotes \o RemoteInputs(files)

\* C12: add_files on N inputs returns N booleans in input order, true exactly
\* for the inputs containing ':'; locals becomes the old locals followed by
\* the resolved inputs without ':' in input order, remotes the old remotes
\* followed by the inputs with ':' split at the first ':' in input order;
\* no existing member is removed, moved or merged with a new one.
C12_AddAppends ==
    /\ (CmdRan("add") /\ cmd.sel # None) =>
          AddedTo(cmd.before[Resolved], cmd.files,
                  [sync |-> syncs[Resolved], out |-> cmd.out])
    /\ (pc = "save" /\ cmd.op = "add") =>
          \A i \in 1..Len(syncs), files \in FileLists :
             AddedTo(syncs[i], files, add_files(syncs[i], files))

\* add a /a /a was run: both inputs were appended to locals, the second one
\* although the group held it already
C12_Witness ==
    /\ CmdRan("add")
    /\ cmd.sel # None
    /\ cmd.files = <<PathA, PathA>>
    /\ cmd.out = <<FALSE, FALSE>>
    /\ syncs[Resolved].locals = cmd.before[Resolved].locals \o <<PathA, PathA>>

\* the members of one category that a call of remove_files reported removed
RemovedBy(files, out, remote) ==
    {RmTarget(files[k]) : k \in {l \in 1..Len(files) : out[l] = <<TRUE, remote>>}}

\* C20: when remove_files reports an input removed, no occurrence of that
\* string or pair is left in its list; the members left in that list are the
\* other members of the old list, in their old order, and a list no reported
\* input belongs to is the old list.
C20_RemovalClearsDuplicates ==
    /\ (CmdRan("rm") /\ cmd.sel # None) =>
          LET b == cmd.before[Resolved]
              a == syncs[Resolved]
              gone(remote) == RemovedBy(cmd.files, cmd.out, remote)
          IN /\ \A k \in 1..Len(cmd.files) :
                   cmd.out[k][1]
                   => ~VecContains(RmList(a, cmd.files[k]), RmTarget(cmd.files[k]))
             /\ a.locals = SelectSeq(b.locals, LAMBDA y : y \notin gone(FALSE))
             /\ a.remotes = SelectSeq(b.remotes, LAMBDA y : y \notin gone(TRUE))
             /\ gone(FALSE) = {} => a.locals = b.locals
             /\ gone(TRUE) = {} => a.remotes = b.remotes
    /\ (pc = "save" /\ cmd.op = "add") =>
          \A i \in 1..Len(syncs), file \in RmInputs :
             VecContains(RmList(syncs[i], file), RmTarget(file))
             => LET r == remove_files(syncs[i], <<file>>)
                    remote == Contains(file, COLON)
                IN /\ r.out = << <<TRUE, remote>> >>
                   /\ r.sync.locals = IF remote THEN syncs[i].locals
                                      ELSE Retain(syncs[i].locals, file)
                   /\ r.sync.remotes = IF remote
                                       THEN Retain(syncs[i].remotes, RmTarget(file))
                                       ELSE syncs[i].remotes

\* rm a /a was run on a group whose locals held /a twice: both are gone
C20_Witness ==
    /\ CmdRan("rm")
    /\ cmd.sel # None
    /\ cmd.files = <<PathA>>
    /\ cmd.out = << <<TRUE, FALSE>> >>
    /\ cmd.before[Resolved].locals = <<PathA, PathA>>
    /\ syncs[Resolved].locals = <<>>

\* C18: when the name given to del, add or rm matches no group or several,
\* the collection is the one that was loaded and the store file is the one
\* load_all left; when it matches one group, del removes that group and
\* keeps the others as they were and in their order, and add and rm leave
\* every other group as it was and where it was.
C18_FailedLookupMutatesNothing ==
    (cmd.op \in {"del", "add", "rm"}) =>
       LET m == Matching(cmd.before, cmd.name)
       IN /\ Cardinality(m) # 1 =>
                /\ cmd.sel = None
                /\ pc = "done"
                /\ syncs = cmd.before
                /\ store = load.after
                /\ prev = NoFile
          /\ Cardinality(m) = 1 =>
                /\ cmd.sel # None
                /\ Resolved \in m
                /\ cmd.op = "del" =>
                      syncs = SubSeq(cmd.before, 1, Resolved - 1)
                              \o SubSeq(cmd.before, Resolved + 1, Len(cmd.before))
                /\ cmd.op \in {"add", "rm"} =>
                      /\ Len(syncs) = Len(cmd.before)
                      /\ \A j \in (1..Len(syncs)) \ {Resolved} : syncs[j] = cmd.before[j]
                      /\ syncs[Resolved].name = cmd.before[Resolved].name

\* del a was run on a collection in which a and ab both match: nothing changed
C18_Witness ==
    /\ cmd.op = "del"
    /\ cmd.name = NameA
    /\ Cardinality(Matching(cmd.before, NameA)) = 2
    /\ pc = "done"
    /\ syncs = cmd.before
    /\ store = load.after

\* C19 as stated: every group of the collection is resolved by its own name.
C19_EveryGroupAddressable ==
    \A i \in 1..Len(syncs) :
       select_by_name(syncs, syncs[i].name, TRUE).result = Some(syncs[i].name)

\* C19 amended: a group is resolved by its own name when no other group's name
\* starts with it; a del, show, add or rm given that name then resolves to
\* that group, and the del leaves no group of that name.
C19_AddressableUnlessPrefixed ==
    /\ \A i \in 1..Len(syncs) :
          Matching(syncs, syncs[i].name) = {i}
          => /\ select_by_name(syncs, syncs[i].name, TRUE).result = Some(syncs[i].name)
             /\ FindByName(syncs, syncs[i].name) = i
    /\ (cmd.op \in {"del", "show", "add", "rm"}) =>
          \A i \in 1..Len(cmd.before) :
             (cmd.before[i].name = cmd.name /\ Matching(cmd.before, cmd.name) = {i})
             => /\ cmd.sel = Some(cmd.name)
                /\ Resolved = i
                /\ cmd.op = "del" =>
                      \A j \in 1..Len(syncs) : syncs[j].name # cmd.name

\* del ab was run on a collection holding a and ab: ab was resolved and
\* removed, a was kept
C19_Witness ==
    /\ CmdRan("del")
    /\ cmd.name = NameAB
    /\ cmd.sel = Some(NameAB)
    /\ \E i, j \in 1..Len(cmd.before) :
          cmd.before[i].name = NameA /\ cmd.before[j].name = NameAB
    /\ \A j \in 1..Len(syncs) : syncs[j].name # NameAB
    /\ \E j \in 1..Len(syncs) : syncs[j].name = NameA

\* C14: no group of the collection has an empty name or a name containing
\* the record separator or the field separator.
C14_SeparatorFreeNames ==
    \A i \in 1..Len(syncs) :
       /\ syncs[i].name # <<>>
       /\ ~Contains(syncs[i].name, SEPARATOR)
       /\ ~Contains(syncs[i].name, FILES_SEP)

====
